---- MODULE Spec2Model ----
(***************************************************************************)
(* Appointment availability and booking engine of the voice agent.         *)
(*                                                                         *)
(* Two CalendarManager implementations are modelled side by side:          *)
(*   impl = "tools"  : src/agent/tools/calendar.py (French, email + SMS)    *)
(*   impl = "agent"  : src/agent.py (English standalone agent, email only)  *)
(*                                                                         *)
(* The Google calendar is the set `events` of records [id, start, end],    *)
(* start/end in absolute UTC minutes.  A request carries a date (a day     *)
(* number) and a time <<hour, minute>>; strptime turns them into naive     *)
(* minutes, and the calendar interprets a naive dateTime in the timeZone   *)
(* the event body names.  Every external call (list, insert, delete, SMTP, *)
(* Twilio) is one step of a worker and may fail.                           *)
(***************************************************************************)
EXTENDS Integers, Sequences, FiniteSets, TLC

\* ---------------------------------------------------------------- bounds
NWorkers == 2
MaxEvents == 2

Workers == 1..NWorkers

\* ------------------------------------------------------ program constants
\* UTC offsets (minutes) of the zone 'Europe/Paris': CET and CEST.
ParisOffsets == {60, 120}
\* minute offsets tried for each hour by the slot generator
MinuteOffsets == <<0, 30>>
\* slot lists the standalone agent returns without asking the calendar
DemoSlots == << <<9,0>>, <<9,30>>, <<10,0>>, <<10,30>>, <<11,0>>, <<11,30>>,
                <<14,0>>, <<14,30>>, <<15,0>>, <<15,30>>, <<16,0>>, <<16,30>> >>
ErrorSlots == << <<9,0>>, <<10,30>>, <<14,0>>, <<15,30>> >>

\* ------------------------------------------------ inputs the model draws
\* request dates: day 0 is a well-formed date, BadDate an unparsable string
BadDate == 0 - 1
ReqDates == {0, BadDate}
\* request times: well-formed slots and one unparsable time
BadTime == <<99, 99>>
GoodTimes == { <<13,0>>, <<13,30>>, <<14,0>> }
\* (date, time) pairs of the requests
Requests == {<<0, t>> : t \in GoodTimes} \cup {<<0, BadTime>>, <<BadDate, <<13,0>> >>}
\* phone numbers: "" (empty) or a number
ReqPhones == {"", "+33123456789"}
\* email addresses: "" (empty) or an address
ReqEmails == {"", "patient@example.org"}
\* requests of the concurrent specification
ConcRequests == {<<0, <<13,0>> >>, <<0, <<13,30>> >>}
ConcPhones == ReqPhones
ConcEmails == {"patient@example.org"}
\* configurations the booking specifications start from
BookingHours == { [open |-> <<13,0>>, close |-> <<15,0>>, wellFormed |-> TRUE] }
BookingDurations == {30}
\* configurations the slot-generation specification starts from
Hours(o, c) == [open |-> o, close |-> c, wellFormed |-> TRUE]
SlotHours == { Hours(<<9,0>>, <<17,0>>), Hours(<<9,0>>, <<10,0>>),
               Hours(<<8,30>>, <<10,30>>), Hours(<<16,0>>, <<17,0>>),
               Hours(<<9,0>>, <<9,0>>), Hours(<<17,0>>, <<9,0>>) }
SlotDurations == {30, 60, 90}
\* business hours of the specification of the configuration modes: the
\* hours of BookingHours and a BUSINESS_HOURS string whose hours are not
\* numbers ("9h-15h": int('9h') raises)
\* requests whose interval stays inside an hour, crosses an hour and
\* crosses midnight
EventRequests == {<<0, <<14,0>> >>, <<0, <<14,30>> >>, <<0, <<23,30>> >>}
ModeHours ==
  BookingHours \cup {[open |-> <<13,0>>, close |-> <<15,0>>, wellFormed |-> FALSE]}

VARIABLES
  impl,          \* which CalendarManager is deployed
  credsOk,       \* whether initialize() can build the Google service
  tzParis,       \* UTC offset of Europe/Paris in force
  duration,      \* settings.APPOINTMENT_DURATION
  businessHours, \* settings.BUSINESS_HOURS
  service,       \* service[w]: self.service is set in worker w
  events,        \* the calendar store
  nextId,        \* next event id the store assigns
  pc,            \* pc[w]: position of worker w inside its operation
  req,           \* req[w]: arguments of the running operation
  calls,         \* calls[w]: external calls issued by the running/last operation
  loc,           \* loc[w]: locals of the running operation
  result,        \* the latest result an operation returned to its caller
  calFailed      \* history: some calendar call has failed so far

vars == <<impl, credsOk, tzParis, duration, businessHours, service, events,
          nextId, pc, req, calls, loc, result, calFailed>>

config == <<impl, credsOk, tzParis, duration, businessHours>>

\* ------------------------------------------------------------ pure helpers
\* datetime.strptime(f"{date} {time}", "%Y-%m-%d %H:%M"): parsable or not
Parsable(date, time) ==
  /\ date >= 0
  /\ time[1] \in 0..23
  /\ time[2] \in 0..59

\* the naive datetime strptime returns, in minutes
Strptime(date, time) == date * 1440 + time[1] * 60 + time[2]

\* isoformat() + 'Z': the naive value read as UTC by events().list
ListInstant(naive) == naive

\* 'dateTime': isoformat(), 'timeZone': zone -- the calendar reads the naive
\* value in the zone of the event body
EventZoneOffset(im, paris) == IF im = "tools" THEN paris ELSE 0

EventInstant(naive, im, paris) == naive - EventZoneOffset(im, paris)

\* events().list(timeMin, timeMax): events ending after timeMin and starting
\* before timeMax
ListEvents(evs, tmin, tmax) == {e \in evs : e.end > tmin /\ e.start < tmax}

Overlap(e, f) == e.start < f.end /\ f.start < e.end

\* the external calls of one operation: how many of each kind were issued,
\* what the last list call answered (hits), whether a list call raised
\* (listFailed), the id the insert call returned, and the kind of message
\* handed to each channel (emailKind, smsKind)
NoCalls == [list |-> 0, hits |-> 0, listFailed |-> FALSE, insert |-> 0,
            inserted |-> 0, delete |-> 0, email |-> 0, emailSent |-> FALSE,
            sms |-> 0, smsSent |-> FALSE, emailKind |-> "none",
            smsKind |-> "none"]

\* send_email_confirmation and send_sms_confirmation take the recipient, the
\* name and appointment_details, no subject and no body: the message they
\* send is the booking confirmation they build themselves
SenderMessage == "confirmation"
NoReq == [date |-> 0, time |-> <<0,0>>, phone |-> "", email |-> "", id |-> 0,
          kind |-> "none"]
NoLoc == [cands |-> <<>>, idx |-> 0, acc |-> <<>>, created |-> 0,
          email |-> "absent"]
NoRet == [op |-> "none", date |-> 0, time |-> <<0,0>>, id |-> 0,
          success |-> FALSE, msg |-> "none", n |-> 0, conflicts |-> 0 - 1,
          error |-> "none", reason |-> "none", eventId |-> 0,
          email |-> "absent", sms |-> "absent", slots |-> <<>>,
          calls |-> NoCalls]

\* initialize() as called lazily at the head of every tools operation; the
\* standalone agent only initializes in on_enter
SvcAfter(im, svc, creds) == IF im = "tools" THEN svc \/ creds ELSE svc

\* check_availability written with `len(events) > 1`: one conflicting event
\* passes for a free slot
CheckAvail_OffByOne(im, svc, date, time, dur, listOk, evs) ==
  LET naive == Strptime(date, time)
      found == ListEvents(evs, ListInstant(naive), ListInstant(naive + dur))
      n     == Cardinality(found)
      base  == [available |-> FALSE, conflicts |-> 0 - 1, n |-> 0,
                error |-> "none", msg |-> "none", listed |-> FALSE,
                failed |-> FALSE,
                hits |-> IF svc /\ Parsable(date, time) /\ listOk THEN n ELSE 0]
  IN  IF ~svc THEN
        IF im = "tools"
          THEN [base EXCEPT !.error = "service", !.msg = "service_unavailable"]
          ELSE [base EXCEPT !.available = TRUE, !.msg = "demo"]
      ELSE IF ~Parsable(date, time) \/ ~listOk THEN
        IF im = "tools"
          THEN [base EXCEPT !.error = "exception", !.msg = "cannot_verify",
                            !.listed = Parsable(date, time),
                            !.failed = Parsable(date, time)]
          ELSE [base EXCEPT !.available = TRUE, !.msg = "appears_available",
                            !.listed = Parsable(date, time),
                            !.failed = Parsable(date, time)]
      ELSE IF n > 1 THEN
        [base EXCEPT !.msg = "slot_taken", !.n = n, !.listed = TRUE,
                     !.conflicts = IF im = "tools" THEN n ELSE 0 - 1]
      ELSE
        [base EXCEPT !.available = TRUE, !.msg = "available", !.listed = TRUE]

\* check_availability(date, time) against the store evs; listOk is the
\* outcome of the events().list call.  `listed` tells whether the list call
\* was issued, `failed` whether it raised.
CheckAvail(im, svc, date, time, dur, listOk, evs) ==
  LET naive == Strptime(date, time)
      found == ListEvents(evs, ListInstant(naive), ListInstant(naive + dur))
      n     == Cardinality(found)
      base  == [available |-> FALSE, conflicts |-> 0 - 1, n |-> 0,
                error |-> "none", msg |-> "none", listed |-> FALSE,
                failed |-> FALSE,
                hits |-> IF svc /\ Parsable(date, time) /\ listOk THEN n ELSE 0]
  IN  IF ~svc THEN
        IF im = "tools"
          THEN [base EXCEPT !.error = "service", !.msg = "service_unavailable"]
          ELSE [base EXCEPT !.available = TRUE, !.msg = "demo"]
      ELSE IF ~Parsable(date, time) \/ ~listOk THEN
        IF im = "tools"
          THEN [base EXCEPT !.error = "exception", !.msg = "cannot_verify",
                            !.listed = Parsable(date, time),
                            !.failed = Parsable(date, time)]
          ELSE [base EXCEPT !.available = TRUE, !.msg = "appears_available",
                            !.listed = Parsable(date, time),
                            !.failed = Parsable(date, time)]
      ELSE IF n > 0 THEN
        [base EXCEPT !.msg = "slot_taken", !.n = n, !.listed = TRUE,
                     !.conflicts = IF im = "tools" THEN n ELSE 0 - 1]
      ELSE
        [base EXCEPT !.available = TRUE, !.msg = "available", !.listed = TRUE]

\* the list call of one check_availability, added to the call log c
Listed(c, a) ==
  IF a.listed
    THEN [c EXCEPT !.list = @ + 1, !.hits = a.hits,
                    !.listFailed = @ \/ a.failed]
    ELSE c

\* int(BUSINESS_HOURS.split('-')[k].split(':')[0])
ParseHour(hhmm) == hhmm[1]

\* the inner loop of the slot generator for one hour, from minute index i
RECURSIVE MinuteLoop(_, _, _)
MinuteLoop(hour, endHour, i) ==
  IF i > Len(MinuteOffsets) THEN <<>>
  ELSE IF hour = endHour - 1 /\ MinuteOffsets[i] = 30 THEN <<>>
  ELSE << <<hour, MinuteOffsets[i]>> >> \o MinuteLoop(hour, endHour, i + 1)

\* for hour in range(start_hour, end_hour): ...
RECURSIVE HourLoop(_, _)
HourLoop(hour, endHour) ==
  IF hour >= endHour THEN <<>>
  ELSE MinuteLoop(hour, endHour, 1) \o HourLoop(hour + 1, endHour)

\* a generator that reads an inverted range as running from close to open
AllSlots_Swapped(bh) ==
  IF ParseHour(bh.open) > ParseHour(bh.close)
    THEN HourLoop(ParseHour(bh.close), ParseHour(bh.open))
    ELSE HourLoop(ParseHour(bh.open), ParseHour(bh.close))

AllSlots(bh) == HourLoop(ParseHour(bh.open), ParseHour(bh.close))

\* ---------------------------------------------------------------- returns
\* the operation of worker w returns r; c counts the external calls it issued
Return(w, r, c) ==
  /\ result' = [r EXCEPT !.calls = c]
  /\ pc' = [pc EXCEPT ![w] = "idle"]
  /\ req' = [req EXCEPT ![w] = NoReq]
  /\ calls' = [calls EXCEPT ![w] = NoCalls]
  /\ loc' = [loc EXCEPT ![w] = NoLoc]

Init ==
  /\ impl \in {"tools", "agent"}
  /\ credsOk \in BOOLEAN
  /\ tzParis \in ParisOffsets
  /\ duration \in BookingDurations
  /\ businessHours \in BookingHours
  /\ service = [w \in Workers |-> FALSE]
  /\ events = {}
  /\ nextId = 1
  /\ pc = [w \in Workers |-> "idle"]
  /\ req = [w \in Workers |-> NoReq]
  /\ calls = [w \in Workers |-> NoCalls]
  /\ loc = [w \in Workers |-> NoLoc]
  /\ result = NoRet
  /\ calFailed = FALSE

\* on_enter / startup_event: calendar_manager.initialize()
Initialize(w) ==
  /\ pc[w] = "idle"
  /\ ~service[w]
  /\ service' = [service EXCEPT ![w] = credsOk]
  /\ UNCHANGED <<config, events, nextId, pc, req, calls, loc, result,
                 calFailed>>

\* worker w moves on inside its operation
Continue(w, p, c, l) ==
  /\ pc' = [pc EXCEPT ![w] = p]
  /\ calls' = [calls EXCEPT ![w] = c]
  /\ loc' = [loc EXCEPT ![w] = l]
  /\ UNCHANGED <<req, result>>

\* ------------------------------------------------------ check_availability
\* a check that puts a hold on the slot it found free
CheckAvailability_Holds(w, okSet) ==
  /\ pc[w] = "idle"
  /\ \E rq \in Requests, ok \in okSet :
       LET d   == rq[1]
           t   == rq[2]
           svc == SvcAfter(impl, service[w], credsOk)
           a   == CheckAvail(impl, svc, d, t, duration, ok, events)
           hold == a.available /\ a.listed /\ nextId <= MaxEvents
       IN  /\ ~a.listed => ok = TRUE
           /\ service' = [service EXCEPT ![w] = svc]
           /\ calFailed' = (calFailed \/ a.failed)
           /\ events' =
                IF hold
                  THEN events \cup
                         {[id    |-> nextId,
                           start |-> ListInstant(Strptime(d, t)),
                           end   |-> ListInstant(Strptime(d, t) + duration)]}
                  ELSE events
           /\ nextId' = IF hold THEN nextId + 1 ELSE nextId
           /\ Return(w, [NoRet EXCEPT !.op = "check", !.date = d, !.time = t,
                           !.success = a.available, !.msg = a.msg, !.n = a.n,
                           !.conflicts = a.conflicts, !.error = a.error],
                     Listed(NoCalls, a))
  /\ UNCHANGED config

CheckAvailability(w, okSet) ==
  /\ pc[w] = "idle"
  /\ \E rq \in Requests, ok \in okSet :
       LET d   == rq[1]
           t   == rq[2]
           svc == SvcAfter(impl, service[w], credsOk)
           a   == CheckAvail(impl, svc, d, t, duration, ok, events)
       IN  /\ ~a.listed => ok = TRUE
           /\ service' = [service EXCEPT ![w] = svc]
           /\ calFailed' = (calFailed \/ a.failed)
           /\ Return(w, [NoRet EXCEPT !.op = "check", !.date = d, !.time = t,
                           !.success = a.available, !.msg = a.msg, !.n = a.n,
                           !.conflicts = a.conflicts, !.error = a.error],
                     Listed(NoCalls, a))
  /\ UNCHANGED <<config, events, nextId>>

\* ---------------------------------------------------------- book_appointment
\* inserts already promised to operations in flight
Pending == Cardinality({v \in Workers : pc[v] = "insert"})

\* From the head of book_appointment up to the decision taken on the result
\* of check_availability (and the strptime that follows it).
BookCheck(w, rqs, phones, emails, okSet) ==
  /\ pc[w] = "idle"
  /\ nextId + Pending <= MaxEvents
  /\ \E rq \in rqs, ph \in phones, em \in emails, ok \in okSet :
       LET d   == rq[1]
           t   == rq[2]
           svc == SvcAfter(impl, service[w], credsOk)
           a   == CheckAvail(impl, svc, d, t, duration, ok, events)
           r0  == [NoRet EXCEPT !.op = "book", !.date = d, !.time = t]
           c   == Listed(NoCalls, a)
       IN  /\ ~a.listed => ok = TRUE
           /\ service' = [service EXCEPT ![w] = svc]
           /\ calFailed' = (calFailed \/ a.failed)
           /\ IF ~svc THEN
                IF impl = "tools"
                  THEN Return(w, [r0 EXCEPT !.error = "service",
                                            !.msg = "service_unavailable"], c)
                  ELSE Return(w, [r0 EXCEPT !.success = TRUE, !.msg = "demo"], c)
              ELSE IF ~a.available THEN
                Return(w, [r0 EXCEPT !.msg = a.msg, !.n = a.n,
                             !.reason = IF impl = "tools"
                                          THEN "time_slot_unavailable"
                                          ELSE "none"], c)
              ELSE IF ~Parsable(d, t) THEN
                Return(w, [r0 EXCEPT !.msg = "book_failed",
                             !.error = IF impl = "tools" THEN "exception"
                                                         ELSE "none"], c)
              ELSE
                /\ pc' = [pc EXCEPT ![w] = "insert"]
                /\ req' = [req EXCEPT ![w] = [NoReq EXCEPT !.date = d,
                                                !.time = t, !.phone = ph,
                                                !.email = em]]
                /\ calls' = [calls EXCEPT ![w] = c]
                /\ UNCHANGED <<loc, result>>
  /\ UNCHANGED <<config, events, nextId>>

\* an event body whose end is set half an hour after its start, whatever
\* APPOINTMENT_DURATION says
NewEvent_HalfHour(id, date, time) ==
  [id    |-> id,
   start |-> EventInstant(Strptime(date, time), impl, tzParis),
   end   |-> EventInstant(Strptime(date, time) + 30, impl, tzParis)]

\* the event body book_appointment builds for the insert call
NewEvent(id, date, time) ==
  [id    |-> id,
   start |-> EventInstant(Strptime(date, time), impl, tzParis),
   end   |-> EventInstant(Strptime(date, time) + duration, impl, tzParis)]

\* an insert that creates only when the slot is still free (a conditional
\* create in the store)
InsertOk_Atomic(w) ==
  /\ pc[w] = "insert"
  /\ \A e \in events : ~Overlap(e, NewEvent(nextId, req[w].date, req[w].time))
  /\ events' = events \cup {NewEvent(nextId, req[w].date, req[w].time)}
  /\ nextId' = nextId + 1
  /\ Continue(w, "email",
              [calls[w] EXCEPT !.insert = @ + 1, !.inserted = nextId],
              [loc[w] EXCEPT !.created = nextId])
  /\ UNCHANGED <<config, service, calFailed>>

\* events().insert(...).execute() succeeded
InsertOk(w) ==
  /\ pc[w] = "insert"
  /\ events' = events \cup {NewEvent(nextId, req[w].date, req[w].time)}
  /\ nextId' = nextId + 1
  /\ Continue(w, "email",
              [calls[w] EXCEPT !.insert = @ + 1, !.inserted = nextId],
              [loc[w] EXCEPT !.created = nextId])
  /\ UNCHANGED <<config, service, calFailed>>

\* a failed insert swallowed: the notifications go out for an event that was
\* never created
InsertFail_StillNotifies(w) ==
  /\ pc[w] = "insert"
  /\ calFailed' = TRUE
  /\ Continue(w, "email", [calls[w] EXCEPT !.insert = @ + 1], loc[w])
  /\ UNCHANGED <<config, service, events, nextId>>

\* events().insert(...).execute() raised
InsertFail(w) ==
  /\ pc[w] = "insert"
  /\ calFailed' = TRUE
  /\ Return(w, [NoRet EXCEPT !.op = "book", !.date = req[w].date,
                  !.time = req[w].time, !.msg = "book_failed",
                  !.error = IF impl = "tools" THEN "exception" ELSE "none"],
            [calls[w] EXCEPT !.insert = @ + 1])
  /\ UNCHANGED <<config, service, events, nextId>>

BookInsert(w, okSet) ==
  \/ InsertOk(w)
  \/ FALSE \in okSet /\ InsertFail(w)

\* a result whose success waits for a delivered notification
BookedResult_NeedsNotification(im, rq, created, emailOut, smsOut) ==
  [NoRet EXCEPT !.op = "book", !.date = rq.date, !.time = rq.time,
                !.success = (emailOut = "ok" \/ smsOut = "ok"),
                !.eventId = created,
                !.msg = "booked", !.email = emailOut, !.sms = smsOut]

\* the dictionary book_appointment returns once the event is created:
\* emailOut / smsOut are the outcomes of the two channels
BookedResult(im, rq, created, emailOut, smsOut) ==
  LET r0 == [NoRet EXCEPT !.op = "book", !.date = rq.date, !.time = rq.time,
                          !.success = TRUE, !.eventId = created]
  IN  IF im = "agent"
        THEN [r0 EXCEPT !.msg = IF emailOut = "ok" THEN "booked_email_sent"
                                                   ELSE "booked"]
        ELSE [r0 EXCEPT !.msg = "booked", !.email = emailOut, !.sms = smsOut]

\* send_email_confirmation, and the return when no SMS follows
BookEmail(w) ==
  /\ pc[w] = "email"
  /\ \E sent \in BOOLEAN :
       LET out == IF sent THEN "ok" ELSE "fail"
           c   == [calls[w] EXCEPT !.email = @ + 1, !.emailSent = sent,
                                   !.emailKind = SenderMessage]
       IN  IF impl = "agent" \/ req[w].phone = "" THEN
             Return(w, BookedResult(impl, req[w], loc[w].created, out, "fail"),
                    c)
           ELSE
             Continue(w, "sms", c, [loc[w] EXCEPT !.email = out])
  /\ UNCHANGED <<config, service, events, nextId, calFailed>>

\* a booking undone when neither notification went out: the created event
\* is deleted again and the booking reported as failed
BookSms_Rollback(w) ==
  /\ pc[w] = "sms"
  /\ \E sent \in BOOLEAN :
       IF ~sent /\ loc[w].email = "fail" THEN
         /\ events' = {e \in events : e.id # loc[w].created}
         /\ Return(w, [NoRet EXCEPT !.op = "book", !.date = req[w].date,
                         !.time = req[w].time, !.msg = "book_failed"],
                   [calls[w] EXCEPT !.sms = @ + 1, !.delete = @ + 1])
       ELSE
         /\ events' = events
         /\ Return(w, BookedResult(impl, req[w], loc[w].created, loc[w].email,
                                   "ok"),
                   [calls[w] EXCEPT !.sms = @ + 1, !.smsSent = TRUE])
  /\ UNCHANGED <<config, service, nextId, calFailed>>

\* send_sms_confirmation and the final return of book_appointment
BookSms(w) ==
  /\ pc[w] = "sms"
  /\ \E sent \in BOOLEAN :
       Return(w, BookedResult(impl, req[w], loc[w].created, loc[w].email,
                              IF sent THEN "ok" ELSE "fail"),
              [calls[w] EXCEPT !.sms = @ + 1, !.smsSent = sent,
                               !.smsKind = SenderMessage])
  /\ UNCHANGED <<config, service, events, nextId, calFailed>>

\* -------------------------------------------------------- cancel_appointment
\* events().delete(eventId).execute(): `ok` is the transport outcome; the
\* store answers 404/410 (an HttpError) for an id it does not hold.
CancelAppointment(w, okSet) ==
  /\ impl = "tools"
  /\ pc[w] = "idle"
  /\ \E id \in 1..MaxEvents, ok \in okSet :
       LET svc   == SvcAfter(impl, service[w], credsOk)
           held  == \E e \in events : e.id = id
           r0    == [NoRet EXCEPT !.op = "cancel", !.id = id]
       IN  /\ ~svc => ok = TRUE
           /\ service' = [service EXCEPT ![w] = svc]
           /\ IF ~svc THEN
                /\ UNCHANGED <<events, calFailed>>
                /\ Return(w, [r0 EXCEPT !.msg = "service_unavailable"], NoCalls)
              ELSE
                /\ calFailed' = (calFailed \/ ~ok)
                /\ IF ok /\ held THEN
                     /\ events' = {e \in events : e.id # id}
                     /\ Return(w, [r0 EXCEPT !.success = TRUE,
                                             !.msg = "cancelled"],
                               [NoCalls EXCEPT !.delete = 1])
                   ELSE
                     /\ events' = events
                     /\ Return(w, [r0 EXCEPT !.error = "exception",
                                             !.msg = "cancel_failed"],
                               [NoCalls EXCEPT !.delete = 1])
  /\ UNCHANGED <<config, nextId>>

\* ------------------------------------------------------- get_available_slots
\* Head of get_available_slots: service check, business hours, candidates.
SlotsBegin(w) ==
  /\ pc[w] = "idle"
  /\ \E d \in ReqDates :
       LET svc == SvcAfter(impl, service[w], credsOk)
           r0  == [NoRet EXCEPT !.op = "slots", !.date = d]
           all == AllSlots(businessHours)
       IN  /\ service' = [service EXCEPT ![w] = svc]
           /\ IF ~svc THEN
                IF impl = "tools"
                  THEN Return(w, [r0 EXCEPT !.error = "service",
                                            !.msg = "service_unavailable"],
                              NoCalls)
                  ELSE Return(w, [r0 EXCEPT !.success = TRUE, !.msg = "demo",
                                            !.slots = DemoSlots], NoCalls)
              ELSE IF ~businessHours.wellFormed THEN
                IF impl = "tools"
                  THEN Return(w, [r0 EXCEPT !.error = "exception",
                                            !.msg = "slots_failed"], NoCalls)
                  ELSE Return(w, [r0 EXCEPT !.success = TRUE,
                                            !.msg = "error_slots",
                                            !.slots = ErrorSlots], NoCalls)
              ELSE IF Len(all) = 0 THEN
                Return(w, [r0 EXCEPT !.success = TRUE, !.msg = "slots"],
                       NoCalls)
              ELSE
                /\ pc' = [pc EXCEPT ![w] = "slots"]
                /\ req' = [req EXCEPT ![w] = [NoReq EXCEPT !.date = d]]
                /\ loc' = [loc EXCEPT ![w] = [NoLoc EXCEPT !.cands = all,
                                                          !.idx = 1]]
                /\ UNCHANGED <<calls, result>>
  /\ UNCHANGED <<config, events, nextId, calFailed>>

\* One round of the filtering loop: check_availability(date, time_slot),
\* and the return after the last candidate.
SlotsCheck(w, okSet) ==
  /\ pc[w] = "slots"
  /\ \E ok \in okSet :
       LET t    == loc[w].cands[loc[w].idx]
           a    == CheckAvail(impl, service[w], req[w].date, t, duration, ok,
                              events)
           acc  == IF a.available THEN Append(loc[w].acc, t) ELSE loc[w].acc
           c    == Listed(calls[w], a)
       IN  /\ ~a.listed => ok = TRUE
           /\ calFailed' = (calFailed \/ a.failed)
           /\ IF loc[w].idx = Len(loc[w].cands) THEN
                Return(w, [NoRet EXCEPT !.op = "slots", !.date = req[w].date,
                             !.success = TRUE, !.msg = "slots", !.slots = acc,
                             !.n = Len(acc)], c)
              ELSE
                Continue(w, "slots", c, [loc[w] EXCEPT !.idx = @ + 1,
                                                       !.acc = acc])
  /\ UNCHANGED <<config, service, events, nextId>>

\* ------------------------------------------ send_reminder, cancellation notice
\* the two NotificationManager operations that send on both channels
NoticeKinds == {"reminder", "cancellation_notice"}

\* a send_reminder / send_cancellation_notice whose appointment_details lack
\* a key: the KeyError leaves the operation
NotifyBegin_Raises(w) ==
  /\ impl = "tools"
  /\ pc[w] = "idle"
  /\ \E kind \in NoticeKinds, detailsOk \in BOOLEAN :
       IF ~detailsOk THEN
         /\ pc' = [pc EXCEPT ![w] = "raised"]
         /\ UNCHANGED <<req, calls, loc, result>>
       ELSE
         /\ pc' = [pc EXCEPT ![w] = "nemail"]
         /\ req' = [req EXCEPT ![w] = [NoReq EXCEPT !.kind = kind]]
         /\ UNCHANGED <<calls, loc, result>>
  /\ UNCHANGED <<config, service, events, nextId, calFailed>>

\* The head of send_reminder / send_cancellation_notice: the message bodies
\* are built from appointment_details; a missing key raises inside the try
\* and comes back as a failure result.
NotifyBegin(w) ==
  /\ impl = "tools"
  /\ pc[w] = "idle"
  /\ \E kind \in NoticeKinds, detailsOk \in BOOLEAN :
       IF ~detailsOk THEN
         Return(w, [NoRet EXCEPT !.op = kind, !.error = "exception",
                                 !.msg = "notice_failed"], NoCalls)
       ELSE
         /\ pc' = [pc EXCEPT ![w] = "nemail"]
         /\ req' = [req EXCEPT ![w] = [NoReq EXCEPT !.kind = kind]]
         /\ UNCHANGED <<calls, loc, result>>
  /\ UNCHANGED <<config, service, events, nextId, calFailed>>

\* email_result = await self.send_email_confirmation(...)
NotifyEmail(w) ==
  /\ pc[w] = "nemail"
  /\ \E sent \in BOOLEAN :
       Continue(w, "nsms",
                [calls[w] EXCEPT !.email = @ + 1, !.emailSent = sent,
                                 !.emailKind = SenderMessage],
                [loc[w] EXCEPT !.email = IF sent THEN "ok" ELSE "fail"])
  /\ UNCHANGED <<config, service, events, nextId, calFailed>>

\* sms_result = await self.send_sms_confirmation(...) and the return
NotifySms(w) ==
  /\ pc[w] = "nsms"
  /\ \E sent \in BOOLEAN :
       Return(w, [NoRet EXCEPT !.op = req[w].kind,
                    !.success = (loc[w].email = "ok" \/ sent),
                    !.email = loc[w].email,
                    !.sms = IF sent THEN "ok" ELSE "fail",
                    !.msg = "notice_sent"],
              [calls[w] EXCEPT !.sms = @ + 1, !.smsSent = sent,
                               !.smsKind = SenderMessage])
  /\ UNCHANGED <<config, service, events, nextId, calFailed>>

\* smtplib.SMTP(server, port) is opened without a timeout: a server that
\* accepts the connection and never answers leaves the sender waiting
SmtpHangs(w) ==
  /\ pc[w] \in {"email", "nemail"}
  /\ pc' = [pc EXCEPT ![w] = "smtp_wait"]
  /\ calls' = [calls EXCEPT ![w] = [@ EXCEPT !.email = @ + 1]]
  /\ UNCHANGED <<config, service, events, nextId, calFailed, req, loc, result>>

\* ------------------------------------------------------------ specifications
\* the worker process of the sequential specification
Main == 1

\* operations executed one at a time by one worker process
Next ==
  \/ Initialize(Main)
  \/ CheckAvailability(Main, BOOLEAN)
  \/ BookCheck(Main, Requests, ReqPhones, ReqEmails, BOOLEAN)
  \/ BookInsert(Main, BOOLEAN)
  \/ BookEmail(Main)
  \/ BookSms(Main)
  \/ CancelAppointment(Main, BOOLEAN)
  \/ SlotsBegin(Main)
  \/ SlotsCheck(Main, BOOLEAN)
  \/ NotifyBegin(Main)
  \/ NotifyEmail(Main)
  \/ NotifySms(Main)

Spec == Init /\ [][Next]_vars

\* The operations of one worker with the transports free to stay silent: a
\* started operation takes its next step as soon as the call it waits for
\* has answered (the event loop resumes every coroutine whose await is done).
LiveNext == Next \/ SmtpHangs(Main)

Fairness ==
  /\ WF_vars(BookInsert(Main, BOOLEAN))
  /\ WF_vars(BookEmail(Main))
  /\ WF_vars(BookSms(Main))
  /\ WF_vars(SlotsCheck(Main, BOOLEAN))
  /\ WF_vars(NotifyEmail(Main))
  /\ WF_vars(NotifySms(Main))

SpecLive == Init /\ [][LiveNext]_vars /\ Fairness

\* booking requests of NWorkers worker processes sharing one calendar, their
\* steps interleaved; every worker has run initialize()
ConcInit ==
  /\ impl \in {"tools", "agent"}
  /\ credsOk \in BOOLEAN
  /\ tzParis \in ParisOffsets
  /\ duration \in BookingDurations
  /\ businessHours \in BookingHours
  /\ service = [w \in Workers |-> credsOk]
  /\ events = {}
  /\ nextId = 1
  /\ pc = [w \in Workers |-> "idle"]
  /\ req = [w \in Workers |-> NoReq]
  /\ calls = [w \in Workers |-> NoCalls]
  /\ loc = [w \in Workers |-> NoLoc]
  /\ result = NoRet
  /\ calFailed = FALSE

ConcNext ==
  \/ \E w \in Workers : BookCheck(w, ConcRequests, ConcPhones, ConcEmails, BOOLEAN)
  \/ \E w \in Workers : BookInsert(w, BOOLEAN)
  \/ \E w \in Workers : BookEmail(w)
  \/ \E w \in Workers : BookSms(w)

SpecConc == ConcInit /\ [][ConcNext]_vars

\* get_available_slots of an initialized manager against a calendar that
\* answers every query, for the business hours and durations of SlotHours
\* and SlotDurations
SlotsInit ==
  /\ impl \in {"tools", "agent"}
  /\ credsOk = TRUE
  /\ tzParis \in ParisOffsets
  /\ duration \in SlotDurations
  /\ businessHours \in SlotHours
  /\ service = [w \in Workers |-> TRUE]
  /\ events = {}
  /\ nextId = 1
  /\ pc = [w \in Workers |-> "idle"]
  /\ req = [w \in Workers |-> NoReq]
  /\ calls = [w \in Workers |-> NoCalls]
  /\ loc = [w \in Workers |-> NoLoc]
  /\ result = NoRet
  /\ calFailed = FALSE

SlotsNext ==
  \/ SlotsBegin(Main)
  \/ SlotsCheck(Main, {TRUE})

SpecSlots == SlotsInit /\ [][SlotsNext]_vars

\* availability, slot and booking operations of one worker, before and after
\* initialize(), with and without credentials, for the hours of ModeHours
ModesInit ==
  /\ impl \in {"tools", "agent"}
  /\ credsOk \in BOOLEAN
  /\ tzParis \in ParisOffsets
  /\ duration \in BookingDurations
  /\ businessHours \in ModeHours
  /\ service = [w \in Workers |-> FALSE]
  /\ events = {}
  /\ nextId = 1
  /\ pc = [w \in Workers |-> "idle"]
  /\ req = [w \in Workers |-> NoReq]
  /\ calls = [w \in Workers |-> NoCalls]
  /\ loc = [w \in Workers |-> NoLoc]
  /\ result = NoRet
  /\ calFailed = FALSE

ModesNext ==
  \/ Initialize(Main)
  \/ CheckAvailability(Main, BOOLEAN)
  \/ BookCheck(Main, ConcRequests, ConcPhones, ConcEmails, BOOLEAN)
  \/ BookInsert(Main, BOOLEAN)
  \/ BookEmail(Main)
  \/ BookSms(Main)
  \/ SlotsBegin(Main)
  \/ SlotsCheck(Main, BOOLEAN)

SpecModes == ModesInit /\ [][ModesNext]_vars

\* bookings of an initialized manager against a calendar that answers, for
\* the durations of SlotDurations and the requests of EventRequests
EventInit ==
  /\ impl \in {"tools", "agent"}
  /\ credsOk = TRUE
  /\ tzParis \in ParisOffsets
  /\ duration \in SlotDurations
  /\ businessHours \in BookingHours
  /\ service = [w \in Workers |-> TRUE]
  /\ events = {}
  /\ nextId = 1
  /\ pc = [w \in Workers |-> "idle"]
  /\ req = [w \in Workers |-> NoReq]
  /\ calls = [w \in Workers |-> NoCalls]
  /\ loc = [w \in Workers |-> NoLoc]
  /\ result = NoRet
  /\ calFailed = FALSE

EventNext ==
  \/ BookCheck(Main, EventRequests, ReqPhones, ConcEmails, {TRUE})
  \/ InsertOk(Main)
  \/ BookEmail(Main)
  \/ BookSms(Main)

SpecEvent == EventInit /\ [][EventNext]_vars

\* Booking coroutines of src/agent/tools/calendar.py on one asyncio event
\* loop.  A coroutine keeps the loop until it awaits something that really
\* suspends: initialize(), check_availability(), the Google client's
\* execute() and the smtplib calls run to their end without yielding, the
\* aiohttp request of send_sms_confirmation is the one await that suspends.
\* Worker w may take a step only while every other coroutine is either not
\* started or suspended at that request.

\* the calendar calls handed to a thread and awaited: the coroutine also
\* suspends between its list call and its insert call
LoopTurn_Threaded(w) ==
  \A v \in Workers \ {w} : pc[v] \in {"idle", "insert", "sms"}

LoopTurn(w) == \A v \in Workers \ {w} : pc[v] \in {"idle", "sms"}

LoopInit ==
  /\ impl = "tools"
  /\ credsOk \in BOOLEAN
  /\ tzParis \in ParisOffsets
  /\ duration \in BookingDurations
  /\ businessHours \in BookingHours
  /\ service = [w \in Workers |-> FALSE]
  /\ events = {}
  /\ nextId = 1
  /\ pc = [w \in Workers |-> "idle"]
  /\ req = [w \in Workers |-> NoReq]
  /\ calls = [w \in Workers |-> NoCalls]
  /\ loc = [w \in Workers |-> NoLoc]
  /\ result = NoRet
  /\ calFailed = FALSE

LoopNext ==
  \E w \in Workers :
    /\ LoopTurn(w)
    /\ \/ BookCheck(w, ConcRequests, ConcPhones, ConcEmails, BOOLEAN)
       \/ BookInsert(w, BOOLEAN)
       \/ BookEmail(w)
       \/ BookSms(w)

SpecLoop == LoopInit /\ [][LoopNext]_vars

\* ------------------------------------------------------------------ claims
NoDoubleBooking == \A e \in events, f \in events : e.id # f.id => ~Overlap(e, f)

\* C1: after any sequence of book_appointment and cancel_appointment run one
\* at a time against a calendar whose calls never failed, no two live events
\* have overlapping [start, end) intervals.
C1_NoOverlapSequential == ~calFailed => NoDoubleBooking

\* what C1 asks for does hold of the standalone agent, which creates its
\* events in the zone it queries
C1_AgentNoOverlap == (impl = "agent" /\ ~calFailed) => NoDoubleBooking

InFlight(w) == pc[w] \in {"insert", "email", "sms"}
Created(w) == pc[w] \in {"email", "sms"}

\* C2: two concurrent book_appointment requests for one slot can both pass
\* the availability check and both create: a request that has passed the
\* check can always perform its insert, whatever was created in the
\* meantime (no lock, no conditional create).
C2_CheckThenCreateRace == \A w \in Workers : pc[w] = "insert" => ENABLED InsertOk(w)

\* two requests of the standalone agent (same zone for query and event, no
\* failed call) in flight for one slot, each having created its event
C2_Witness ==
  /\ impl = "agent"
  /\ ~calFailed
  /\ \E v \in Workers, w \in Workers :
       /\ v # w
       /\ Created(v) /\ Created(w)
       /\ req[v].date = req[w].date /\ req[v].time = req[w].time
       /\ \E e \in events, f \in events :
            /\ e.id = loc[v].created /\ f.id = loc[w].created
            /\ Overlap(e, f)

\* C3: book_appointment whose availability query returned at least one
\* event returns success=false with the number of conflicts in its message
\* and issues no insert, no email and no SMS.
C3_ConflictRefused ==
  /\ (result.op = "book" /\ result.calls.hits >= 1) =>
        /\ ~result.success
        /\ result.msg = "slot_taken" /\ result.n = result.calls.hits
        /\ result.calls.insert = 0
        /\ result.calls.email = 0 /\ result.calls.sms = 0
  /\ \A w \in Workers : InFlight(w) => calls[w].hits = 0

C3_Witness ==
  /\ result.op = "book" /\ result.calls.hits >= 1
  /\ \E e \in events :
       /\ e.end > ListInstant(Strptime(result.date, result.time))
       /\ e.start < ListInstant(Strptime(result.date, result.time) + duration)

\* C4: when the list call of the availability check fails, check_availability
\* does not answer available=true and book_appointment neither creates nor
\* succeeds, in both implementations.
C4_FailClosed ==
  /\ (result.op \in {"check", "book"} /\ result.calls.listFailed) =>
        ~result.success /\ result.calls.insert = 0
  /\ \A w \in Workers : InFlight(w) => ~calls[w].listFailed

\* what C4 asks for does hold of src/agent/tools/calendar.py
C4_ToolsFailClosed == impl = "tools" => C4_FailClosed

\* C5: once the insert of book_appointment has succeeded the result is
\* success=true whatever the channels did, and (tools implementation) it
\* carries one outcome per channel that is success exactly when the send
\* succeeded -- both false when both sends failed.
C5_SuccessDespiteNotifications ==
  (result.op = "book" /\ result.calls.inserted # 0) =>
     /\ result.success
     /\ result.eventId = result.calls.inserted
     /\ impl = "tools" =>
          /\ result.email = (IF result.calls.emailSent THEN "ok" ELSE "fail")
          /\ result.sms = (IF result.calls.smsSent THEN "ok" ELSE "fail")

C5_Witness ==
  /\ impl = "tools"
  /\ result.op = "book" /\ result.calls.inserted # 0
  /\ result.calls.email = 1 /\ ~result.calls.emailSent
  /\ result.calls.sms = 1 /\ ~result.calls.smsSent
  /\ result.success /\ result.email = "fail" /\ result.sms = "fail"

\* C6: when the insert call fails, book_appointment returns success=false
\* with the error surfaced in the result, and attempts no email and no SMS.
C6_CreateFailureSurfaced ==
  (result.op = "book" /\ result.calls.insert = 1 /\ result.calls.inserted = 0) =>
     /\ ~result.success
     /\ result.error # "none"
     /\ result.calls.email = 0 /\ result.calls.sms = 0

\* the part of C6 both implementations keep: no success, no notification
C6_CreateFailureNoNotification ==
  (result.op = "book" /\ result.calls.insert = 1 /\ result.calls.inserted = 0) =>
     /\ ~result.success
     /\ result.calls.email = 0 /\ result.calls.sms = 0
     /\ impl = "tools" => result.error # "none"

\* C7: cancel_appointment is idempotent: a cancel of an id whose previous
\* cancel succeeded returns success=true again (the store's not-found
\* answer is not an error).
C7_CancelIdempotent ==
  [][ (/\ result.op = "cancel" /\ result.success
       /\ result'.op = "cancel" /\ result'.id = result.id
       /\ ~calFailed')
      => result'.success ]_vars

\* C8: a check_availability for the slot a book_appointment has just booked
\* answers available=false with at least one conflicting event.
C8_BookThenCheck ==
  [][ (/\ result.op = "book" /\ result.success /\ result.calls.inserted # 0
       /\ result'.op = "check"
       /\ result'.date = result.date /\ result'.time = result.time
       /\ ~calFailed')
      => (~result'.success /\ result'.n >= 1) ]_vars

\* what C8 asks for does hold of the standalone agent
C8_AgentBookThenCheck ==
  [][ (/\ impl = "agent"
       /\ result.op = "book" /\ result.success /\ result.calls.inserted # 0
       /\ result'.op = "check"
       /\ result'.date = result.date /\ result'.time = result.time
       /\ ~calFailed')
      => (~result'.success /\ result'.n >= 1) ]_vars

\* the 16 half-hour slots 09:00, 09:30, ..., 16:30
SixteenSlots == [i \in 1..16 |-> <<9 + ((i - 1) \div 2), 30 * ((i - 1) % 2)>>]

\* C9: for business hours "09:00-17:00" and duration 30 the candidate slots
\* are exactly the 16 slots 09:00 .. 16:30 in ascending order.
C9_SixteenCandidates ==
  \A w \in Workers :
    (/\ pc[w] = "slots"
     /\ businessHours.open = <<9,0>> /\ businessHours.close = <<17,0>>
     /\ duration = 30)
    => loc[w].cands = SixteenSlots

\* the candidates the code generates for these settings: 09:00 .. 16:00
C9_FifteenCandidates ==
  \A w \in Workers :
    (/\ pc[w] = "slots"
     /\ businessHours.open = <<9,0>> /\ businessHours.close = <<17,0>>)
    => loc[w].cands = SubSeq(SixteenSlots, 1, 15)

Range(q) == {q[i] : i \in 1..Len(q)}

\* the offsets {0, 30} of the hours in [open, close) whose slot ends by close
FittingSlots(bh, dur) ==
  { <<h, m>> : h \in ParseHour(bh.open)..(ParseHour(bh.close) - 1), m \in {0, 30} }
  \ { s \in (0..23) \X {0, 30} : s[1] * 60 + s[2] + dur > ParseHour(bh.close) * 60 }

\* C10: for every business-hours range and duration the generated slots are
\* the offsets {0, 30} of each hour in [open_hour, close_hour) except those
\* whose end would exceed close_hour -- none ends after close_hour, none
\* that fits is left out.
C10_SlotsFitBusinessHours ==
  \A w \in Workers :
    pc[w] = "slots" => Range(loc[w].cands) = FittingSlots(businessHours, duration)

\* C10, first half only: no emitted slot ends after close_hour
C10_NoSlotPastClose ==
  \A w \in Workers :
    pc[w] = "slots" =>
      \A s \in Range(loc[w].cands) :
        s[1] * 60 + s[2] + duration <= ParseHour(businessHours.close) * 60

\* C10, second half only: no slot that fits is left out
C10_NoFittingSlotLeftOut ==
  \A w \in Workers :
    pc[w] = "slots" =>
      FittingSlots(businessHours, duration) \subseteq Range(loc[w].cands)

\* the business hours open at or after the hour they close
InvertedHours == ParseHour(businessHours.open) >= ParseHour(businessHours.close)

\* C11: when the opening hour is not before the closing hour, slot generation
\* yields no candidate and get_available_slots returns the empty sequence as
\* a normal result (no error, no availability query), not as a failure.
C11_InvertedHoursEmpty ==
  (result.op = "slots" /\ InvertedHours)
    => /\ result.slots = <<>>
       /\ result.success
       /\ result.error = "none"
       /\ result.msg = "slots"
       /\ result.calls.list = 0

\* get_available_slots has returned for hours that close before they open
C11_Witness ==
  /\ result.op = "slots"
  /\ ParseHour(businessHours.open) > ParseHour(businessHours.close)
  /\ result.slots = <<>>
  /\ result.success

\* no event of the store evs meets [slot, slot + dur), both closed-open, the
\* slot read in the zone book_appointment gives the events it creates
SlotFree(evs, date, t, dur) ==
  \A e \in evs :
    ~(/\ e.start < EventInstant(Strptime(date, t) + dur, impl, tzParis)
      /\ EventInstant(Strptime(date, t), impl, tzParis) < e.end)

\* the same with the slot read as the availability query reads it
SlotFreeAsQueried(evs, date, t, dur) ==
  \A e \in evs :
    ~(/\ e.start < ListInstant(Strptime(date, t) + dur)
      /\ ListInstant(Strptime(date, t)) < e.end)

Ascending(q) ==
  \A i, j \in 1..Len(q) :
    i < j => q[i][1] * 60 + q[i][2] < q[j][1] * 60 + q[j][2]

\* get_available_slots of worker w returns in this step, for a date that
\* parses and with every list call answered
SlotsReturned(w) ==
  /\ pc[w] = "slots"
  /\ pc'[w] = "idle"
  /\ Parsable(req[w].date, <<0, 0>>)
  /\ ~result'.calls.listFailed

\* C12: with a reachable calendar get_available_slots(date) returns exactly
\* the candidate slots whose interval [start, start + duration) meets no
\* existing event interval [start, end), intervals closed-open, and the
\* returned slots keep the ascending order of the candidates.
C12_SlotsAreTheFreeCandidates ==
  [][\A w \in Workers :
       SlotsReturned(w)
         => /\ result'.slots =
                 SelectSeq(loc[w].cands,
                           LAMBDA t : SlotFree(events, req[w].date, t, duration))
            /\ Ascending(result'.slots)]_vars

\* C12 as it holds in both implementations: the returned slots are the
\* candidates free of events when slot and query window are both read as UTC
C12_FreeAsQueried ==
  [][\A w \in Workers :
       SlotsReturned(w)
         => /\ result'.slots =
                 SelectSeq(loc[w].cands,
                           LAMBDA t : SlotFreeAsQueried(events, req[w].date, t,
                                                        duration))
            /\ Ascending(result'.slots)
            /\ result'.calls.list = Len(loc[w].cands)]_vars

\* C12 in the standalone agent, which creates its events in UTC
C12_AgentSlots ==
  [][\A w \in Workers :
       (SlotsReturned(w) /\ impl = "agent")
         => result'.slots =
              SelectSeq(loc[w].cands,
                        LAMBDA t : SlotFree(events, req[w].date, t, duration))]_vars

\* book_appointment of worker w returns in this step, its event created
BookedReturn(w) == Created(w) /\ pc'[w] = "idle"

\* C13: after a successful create book_appointment attempts the email and,
\* exactly when phone is non-empty, the SMS; the SMS is attempted whatever
\* the outcome of the email, in both implementations.
C13_EmailAndSmsAttempted ==
  [][\A w \in Workers :
       BookedReturn(w)
         => /\ result'.calls.email = 1
            /\ (result'.calls.sms = 1) <=> (req[w].phone # "")
            /\ result'.calls.sms <= 1]_vars

\* C13 in src/agent/tools/calendar.py alone
C13_ToolsEmailAndSms ==
  [][\A w \in Workers :
       (BookedReturn(w) /\ impl = "tools")
         => /\ result'.calls.email = 1
            /\ (result'.calls.sms = 1) <=> (req[w].phone # "")
            /\ result'.calls.sms <= 1]_vars

\* the standalone agent attempts the email and never an SMS
C13_AgentEmailOnly ==
  [][\A w \in Workers :
       (BookedReturn(w) /\ impl = "agent")
         => result'.calls.email = 1 /\ result'.calls.sms = 0]_vars

\* the call log of worker w after a step: the log of the result when the
\* step made its operation return
LogAfter(w) ==
  IF pc[w] # "idle" /\ pc'[w] = "idle" THEN result'.calls ELSE calls'[w]

\* C14: within one book_appointment the external calls are issued in the
\* order list, create, email, SMS: the create only after the availability
\* query answered with no conflicting event, a notification only after the
\* create succeeded, the SMS only after the email.
C14_CallOrder ==
  [][\A w \in Workers : pc[w] \in {"idle", "insert", "email", "sms"} =>
       /\ LogAfter(w).insert > calls[w].insert
            => /\ calls[w].list = 1
               /\ calls[w].hits = 0
               /\ calls[w].insert = 0
               /\ calls[w].email = 0
               /\ calls[w].sms = 0
       /\ LogAfter(w).email > calls[w].email
            => /\ calls[w].inserted # 0
               /\ calls[w].email = 0
               /\ calls[w].sms = 0
       /\ LogAfter(w).sms > calls[w].sms
            => /\ calls[w].inserted # 0
               /\ calls[w].email = 1
               /\ calls[w].sms = 0]_vars

\* a book_appointment that issued all four calls has returned
C14_Witness ==
  /\ result.op = "book"
  /\ result.calls.list = 1
  /\ result.calls.insert = 1
  /\ result.calls.email = 1
  /\ result.calls.sms = 1

\* C15: once the create call of a book_appointment has succeeded, the
\* created event is still in the calendar when the operation returns,
\* whatever the notifications do; the operation never issues a delete.
C15_NoRollback ==
  [][\A w \in Workers :
       Created(w)
         => /\ \E e \in events' : e.id = loc[w].created
            /\ LogAfter(w).delete = 0
            /\ pc'[w] = "idle" => result'.eventId = loc[w].created]_vars

\* a booking returned with its email and its SMS both failed and its event
\* in the calendar
C15_Witness ==
  /\ result.op = "book"
  /\ result.calls.email = 1 /\ ~result.calls.emailSent
  /\ result.calls.sms = 1 /\ ~result.calls.smsSent
  /\ result.calls.delete = 0
  /\ \E e \in events : e.id = result.eventId

\* C16: after cancel_appointment has deleted the event, cancellation notices
\* are attempted on the email and on the SMS channel, and their failures
\* leave the reported success in place.
C16_CancelNoticesAttempted ==
  (result.op = "cancel" /\ result.calls.delete = 1 /\ result.msg = "cancelled")
    => /\ result.success
       /\ result.calls.email >= 1
       /\ result.calls.sms >= 1

\* what cancel_appointment does: a successful delete is reported as success
\* and no notification is attempted
C16_CancelSendsNothing ==
  result.op = "cancel"
    => /\ result.calls.email = 0 /\ result.calls.sms = 0
       /\ result.msg = "cancelled" => result.success

\* the request of the latest book_appointment does not parse
Malformed == result.op = "book" /\ ~Parsable(result.date, result.time)

NoExternalCall(c) ==
  c.list = 0 /\ c.insert = 0 /\ c.delete = 0 /\ c.email = 0 /\ c.sms = 0

\* C17: book_appointment called with a date that is not YYYY-MM-DD or a time
\* that is not HH:MM returns success=false and issues no list call, no
\* insert call and no notification.
C17_MalformedRejected ==
  Malformed => ~result.success /\ NoExternalCall(result.calls)

\* C17 wherever the calendar service is initialized, in both implementations
C17_MalformedRejectedWithService ==
  (Malformed /\ result.msg # "demo")
    => ~result.success /\ NoExternalCall(result.calls)

\* no malformed request reaches an external call, initialized or not
C17_MalformedNoCall == Malformed => NoExternalCall(result.calls)

\* C18: book_appointment called with an empty email string is rejected by
\* request validation before any calendar or notification call: no such
\* request gets past the availability query, and none creates an event.
C18_EmptyEmailRejected ==
  \A w \in Workers : InFlight(w) => req[w].email # ""

\* what the code does with an empty email: the request is booked like any
\* other -- this state, an event created for it, is reachable
C18_EmptyEmailBooked ==
  \E w \in Workers :
    /\ Created(w)
    /\ req[w].email = ""
    /\ \E e \in events : e.id = loc[w].created

\* C19: no call to check_availability, get_available_slots, book_appointment,
\* cancel_appointment or to a NotificationManager operation lets an
\* exception reach its caller: whatever fails inside, no operation is left
\* by a raise, and the failure is in the returned result.
C19_NothingRaised ==
  [][\A w \in Workers :
       /\ pc'[w] # "raised"
       /\ (pc[w] # "idle" /\ pc'[w] = "idle") => result'.op # "none"]_vars

\* failures of every kind have come back as result values: a notice built
\* from incomplete details, after a calendar call had raised
C19_Witness ==
  /\ calFailed
  /\ result.op \in NoticeKinds
  /\ result.error = "exception"
  /\ ~result.success

\* C20: every started operation eventually returns, even when an external
\* call never answers.
C20_EveryOperationReturns ==
  \A w \in Workers :
    (pc[w] \in {"insert", "email", "sms", "slots"}) ~> (pc[w] = "idle")

\* the operations that wait for the calendar only do return
C20_CalendarOperationsReturn ==
  \A w \in Workers :
    (pc[w] \in {"insert", "slots"}) ~> (pc[w] \in {"idle", "email"})

\* an operation of worker w returns its result in this step (w the one
\* worker that takes steps)
Produced(w) == pc'[w] = "idle" /\ (pc[w] # "idle" \/ result' # result)

\* the manager of worker w runs the operation without a calendar service
Offline(w) == ~SvcAfter(impl, service[w], credsOk)

\* q is p with some of its elements left out, the order kept
RECURSIVE IsSubSeq(_, _)
IsSubSeq(q, p) ==
  IF q = <<>> THEN TRUE
  ELSE IF p = <<>> THEN FALSE
  ELSE IF Head(q) = Head(p) THEN IsSubSeq(Tail(q), Tail(p))
  ELSE IsSubSeq(q, Tail(p))

\* C21: a fixed pre-declared slot list is returned by get_available_slots
\* only when the calendar service is not initialized; every availability,
\* slot-list or booking result produced in that mode carries an explicit
\* offline / demo label; with a configured calendar the returned slots are
\* derived from the business hours and the calendar queries.
C21_FixedSlotsOnlyOffline ==
  [][LET w == Main IN
       (Produced(w) /\ result'.op \in {"check", "slots", "book"})
         => /\ (result'.op = "slots" /\ result'.slots \in {DemoSlots, ErrorSlots})
                 => Offline(w)
            /\ Offline(w) => result'.msg \in {"demo", "service_unavailable"}
            /\ (result'.op = "slots" /\ ~Offline(w) /\ result'.success)
                 => IsSubSeq(result'.slots, AllSlots(businessHours))]_vars

\* C21 without its first and last part: what is produced without a service
\* is labelled, and the demo list is only returned without a service
C21_OfflineLabelled ==
  [][LET w == Main IN
       (Produced(w) /\ result'.op \in {"check", "slots", "book"})
         => /\ Offline(w) => result'.msg \in {"demo", "service_unavailable"}
            /\ result'.slots = DemoSlots => Offline(w)]_vars

\* the wall-clock minute an instant shows in the zone of the event body
WallClock(instant) == instant + EventZoneOffset(impl, tzParis)

\* C22: every event created by book_appointment starts at the requested date
\* and time and ends APPOINTMENT_DURATION minutes later, also when the
\* interval crosses an hour or a day boundary.
C22_EndIsStartPlusDuration ==
  [][\A w \in Workers : \A e \in events' \ events :
       pc[w] = "insert" /\ pc'[w] = "email"
         => /\ WallClock(e.start) \div 1440 = req[w].date
            /\ (WallClock(e.start) % 1440) \div 60 = req[w].time[1]
            /\ WallClock(e.start) % 60 = req[w].time[2]
            /\ e.end = e.start + duration
            /\ e.id = calls'[w].inserted]_vars

\* a successful booking whose event ends on the day after it starts
C22_Witness ==
  /\ result.op = "book"
  /\ result.success
  /\ result.time = <<23, 30>>
  /\ \E e \in events :
       /\ e.id = result.eventId
       /\ WallClock(e.start) \div 1440 = 0
       /\ WallClock(e.end) \div 1440 = 1
       /\ WallClock(e.end) % 1440 = duration - 30

\* the event worker w creates in this step
CreatedNow(w, e) ==
  /\ pc[w] = "insert"
  /\ pc'[w] = "email"
  /\ e \in events' \ events

\* C23: for one (date, time) the window check_availability queries and the
\* interval of the event book_appointment creates are the same absolute
\* interval, so the event lies inside the window later queried for its
\* slot, in both implementations.
C23_SameAbsoluteInterval ==
  [][\A w \in Workers : \A e \in events' \ events :
       CreatedNow(w, e)
         => /\ e.start = ListInstant(Strptime(req[w].date, req[w].time))
            /\ e.end = ListInstant(Strptime(req[w].date, req[w].time) + duration)]_vars

\* C23 in the standalone agent, which queries and creates in UTC
C23_AgentSameInterval ==
  [][\A w \in Workers : \A e \in events' \ events :
       (CreatedNow(w, e) /\ impl = "agent")
         => /\ e.start = ListInstant(Strptime(req[w].date, req[w].time))
            /\ e.end = ListInstant(Strptime(req[w].date, req[w].time) + duration)]_vars

\* in src/agent/tools/calendar.py the event lies the Paris offset before the
\* window queried for its slot
C23_ToolsShifted ==
  [][\A w \in Workers : \A e \in events' \ events :
       (CreatedNow(w, e) /\ impl = "tools")
         => e.start = ListInstant(Strptime(req[w].date, req[w].time)) - tzParis]_vars

\* C24: book_appointment returns success=true only if that very call created
\* a calendar event, and the result then carries the id of that event; a
\* success without a created event is never returned.
C24_SuccessMeansCreated ==
  (result.op = "book" /\ result.success)
    => /\ result.calls.insert = 1
       /\ result.calls.inserted # 0
       /\ result.eventId = result.calls.inserted

\* C24 for every result but the demo-mode one of the standalone agent
C24_SuccessMeansCreatedWithService ==
  (result.op = "book" /\ result.success /\ result.msg # "demo")
    => /\ result.calls.insert = 1
       /\ result.calls.inserted # 0
       /\ result.eventId = result.calls.inserted

\* C24 in src/agent/tools/calendar.py
C24_ToolsSuccessMeansCreated ==
  (impl = "tools" /\ result.op = "book" /\ result.success)
    => result.calls.inserted # 0 /\ result.eventId = result.calls.inserted

\* C25: on one asyncio event loop book_appointment of
\* src/agent/tools/calendar.py does not suspend between its availability
\* query and its insert call, so two booking coroutines are never both past
\* the check with their event not yet created; other coroutines run only
\* while one is suspended at the SMS send that follows its create.
C25_NoSuspensionBeforeCreate ==
  /\ Cardinality({w \in Workers : pc[w] \in {"insert", "email"}}) <= 1
  /\ \A w, v \in Workers :
       (w # v /\ pc[w] = "insert") => pc[v] \in {"idle", "sms"}

\* a coroutine is past its check while another one, its event created,
\* is suspended at its SMS send
C25_Witness ==
  \E w, v \in Workers :
    /\ pc[w] = "insert"
    /\ pc[v] = "sms"
    /\ \E e \in events : e.id = loc[v].created

\* a log with list calls only
OnlyListCalls(c) ==
  c.insert = 0 /\ c.delete = 0 /\ c.email = 0 /\ c.sms = 0

\* C26: check_availability and get_available_slots are read-only: they issue
\* list queries only, never a create, a delete or a notification, and leave
\* the events of the calendar as they were.
C26_QueriesReadOnly ==
  [][LET w == Main IN
       (\/ pc[w] = "slots"
        \/ pc'[w] = "slots"
        \/ Produced(w) /\ result'.op \in {"check", "slots"})
         => /\ events' = events
            /\ nextId' = nextId
            /\ OnlyListCalls(calls'[w])
            /\ Produced(w) => OnlyListCalls(result'.calls)]_vars

\* a query operation has returned on a calendar that holds an event:
\* check_availability after its list call, or get_available_slots after
\* querying all three candidates
C26_Witness ==
  /\ events # {}
  /\ result.op \in {"check", "slots"}
  /\ result.calls.list >= 1
  /\ result.op = "slots" => result.calls.list = 3

\* book_appointment of src/agent/tools/calendar.py has returned after its
\* availability query raised, or for a date or time that does not parse
CheckBroke ==
  /\ impl = "tools"
  /\ result.op = "book"
  /\ result.msg # "service_unavailable"
  /\ result.calls.listFailed \/ Malformed

\* C27: when book_appointment of src/agent/tools/calendar.py fails because
\* the availability query failed or the date/time did not parse, the result
\* does not carry reason "time_slot_unavailable" and surfaces the error; a
\* real conflict is a normal unsuccessful result.
C27_ErrorIsNotConflict ==
  /\ CheckBroke
       => /\ ~result.success
          /\ result.reason # "time_slot_unavailable"
          /\ result.error # "none"
  /\ (impl = "tools" /\ result.op = "book" /\ result.calls.hits > 0)
       => /\ ~result.success
          /\ result.reason = "time_slot_unavailable"
          /\ result.error = "none"

\* what the code returns in those cases: the result of a conflict, the
\* message apart
C27_ErrorLooksLikeConflict ==
  CheckBroke
    => /\ ~result.success
       /\ result.reason = "time_slot_unavailable"
       /\ result.error = "none"
       /\ result.msg = "cannot_verify"

\* get_available_slots of src/agent/tools/calendar.py has returned its slot
\* list after a per-slot availability query failed
SlotQueryBroke ==
  /\ impl = "tools"
  /\ result.op = "slots"
  /\ result.msg = "slots"
  /\ result.calls.listFailed \/ ~Parsable(result.date, <<0, 0>>)

\* C28: in get_available_slots of src/agent/tools/calendar.py a candidate is
\* left out only because an event conflicts with it: when a per-slot
\* availability query fails, the result carries the failure in its error
\* field and is not a normal slot list.
C28_SlotFailureSurfaced == SlotQueryBroke => result.error # "none"

\* what the code returns: the slots whose query failed are dropped and the
\* result has no error
C28_FailedSlotsDropped ==
  SlotQueryBroke
    => /\ result.error = "none"
       /\ result.success
       /\ result.calls.list < 3 => result.slots = <<>>
       /\ Len(result.slots) < 3

\* send_reminder has returned after building its messages
ReminderDone == result.op = "reminder" /\ result.error = "none"

\* C29: send_reminder attempts the email and the SMS whatever the other's
\* outcome and returns success=true iff at least one channel succeeded; the
\* message send_reminder_tool hands back says the reminder was sent only in
\* that case and reports a failure when both channels failed.
C29_ReminderMessageTruthful ==
  ReminderDone
    => /\ result.calls.email = 1
       /\ result.calls.sms = 1
       /\ result.success <=> (result.calls.emailSent \/ result.calls.smsSent)
       /\ (result.msg = "notice_sent") <=> result.success

\* C29 without its last part: both channels attempted, success iff one of
\* them succeeded
C29_ReminderBothChannels ==
  ReminderDone
    => /\ result.calls.email = 1
       /\ result.calls.sms = 1
       /\ result.success <=> (result.calls.emailSent \/ result.calls.smsSent)
       /\ result.email = (IF result.calls.emailSent THEN "ok" ELSE "fail")
       /\ result.sms = (IF result.calls.smsSent THEN "ok" ELSE "fail")

\* what the tool hands back: "sent", whatever the channels did
C29_AlwaysSaysSent == ReminderDone => result.msg = "notice_sent"

\* the kind of message a notice operation is to send
NoticeMessage(op) ==
  IF op = "reminder" THEN "reminder" ELSE "cancellation"

\* C30: the messages send_cancellation_notice dispatches are of kind
\* cancellation and those send_reminder dispatches of kind reminder; neither
\* operation ever dispatches a booking confirmation.
C30_NoticeKinds ==
  (result.op \in NoticeKinds /\ result.error = "none")
    => /\ result.calls.emailKind = NoticeMessage(result.op)
       /\ result.calls.smsKind = NoticeMessage(result.op)
       /\ result.calls.emailKind # "confirmation"
       /\ result.calls.smsKind # "confirmation"

\* what both operations dispatch: the booking confirmation, on both channels
C30_NoticesAreConfirmations ==
  (result.op \in NoticeKinds /\ result.error = "none")
    => /\ result.calls.emailKind = "confirmation"
       /\ result.calls.smsKind = "confirmation"
====
